---- MODULE Spec2Model ----
(***************************************************************************)
(* Leave approval engine of smart-planning-calendar (backend/app/main.py,  *)
(* backend/app/deps.py, backend/app/leave_service.py).                     *)
(*                                                                         *)
(* The record store holds users (role, designated approvers, two-step      *)
(* flag) and events (typed absence records with their approval fields).    *)
(* Every HTTP handler is one action: it reads the rows, runs its checks in *)
(* the order of the code, and commits or raises.  A raise leaves the store *)
(* untouched: the session object mutated so far is discarded.              *)
(***************************************************************************)
EXTENDS Integers, FiniteSets, Sequences, TLC

VARIABLES users, events, last, txn, probe

vars == <<users, events, last, txn, probe>>

(***************************************************************************)
(* Bounds of the model.                                                    *)
(***************************************************************************)
MaxDay == 2
Today == 0
MaxSpan == 3
MaxYear == 2026
WindowDays == 8

None == 0
Unset == 0 - 1
UnsetStr == "unset"
UserIds == {1, 2, 3}
EventIds == {1}
Days == 1..MaxDay
EventTypes == {"Leave", "Hospital", " leave ", "Meeting"}
Owners == {1}
StartDays == {1}
RoleChoices == [i \in UserIds |->
                  CASE i = 1 -> {"employee", "supervisor"}
                    [] i = 2 -> {"supervisor", "employee"}
                    [] OTHER -> {"admin", "employee"}]
FirstChoices == {Unset, None, 2}
SecondChoices == {Unset, None, 3}
TwoStepChoices == {<<FALSE, FALSE>>, <<TRUE, FALSE>>, <<TRUE, TRUE>>}
LeaveTypes == {"Leave", "Hospital"}
AdminActors == {3}
Editors == {1, 2}
Reasons == {"", " busy "}
Workers == {1, 2}

(***************************************************************************)
(* str.strip().lower() on the strings of the model.                        *)
(***************************************************************************)
Strip(s) ==
    CASE s = " leave " -> "leave"
      [] s = " busy " -> "busy"
      [] OTHER -> s

Lower(s) ==
    CASE s = "Leave" -> "leave"
      [] s = "Hospital" -> "hospital"
      [] s = "Meeting" -> "meeting"
      [] OTHER -> s

StripLower(s) == Lower(Strip(s))

(***************************************************************************)
(* Role predicates.                                                        *)
(***************************************************************************)
_is_admin_user(u, user_id) ==
    IF user_id = None THEN FALSE
    ELSE user_id \in DOMAIN u /\ u[user_id].role \in {"admin", "ceo"}

_is_supervisor_user(u, user_id) ==
    IF user_id = None THEN FALSE
    ELSE user_id \in DOMAIN u /\ u[user_id].role = "supervisor"

_is_valid_role(role) ==
    StripLower(role) \in {"employee", "admin", "supervisor", "ceo", "finance"}

_is_admin_like(role) == StripLower(role) \in {"admin", "ceo"}

require_admin(u, a) == u[a].role \in {"admin", "ceo"}

require_leave_approver(u, a) == u[a].role \in {"admin", "ceo", "supervisor"}

_is_leave_like_event(e) == StripLower(e.type) \in {"leave", "hospital"}

_is_past_current_day_event(e) == e.end_ts <= Today

(***************************************************************************)
(* validate_leave_request: only the duration is enforced.                  *)
(***************************************************************************)
validate_leave_request(start_ts, end_ts) == ~(end_ts - start_ts <= 0)

(***************************************************************************)
(* datetime.date: a date is a record of year, month and day.  toordinal    *)
(* and weekday are those of the proleptic Gregorian calendar (Monday is 0, *)
(* Sunday is 6); dates are ordered by year, month, day.                    *)
(***************************************************************************)
NoDate == [year |-> 0, month |-> 0, day |-> 0]

IsLeap(y) == (y % 4 = 0) /\ ((y % 100 # 0) \/ (y % 400 = 0))

DaysInMonth(y, m) ==
    CASE m \in {4, 6, 9, 11} -> 30
      [] m = 2 -> IF IsLeap(y) THEN 29 ELSE 28
      [] OTHER -> 31

ValidDate(y, m, d) == m \in 1..12 /\ d >= 1 /\ d <= DaysInMonth(y, m)

_make_date(y, m, d) == [year |-> y, month |-> m, day |-> d]

DaysBeforeMonth(y, m) ==
    <<0, 31, 59, 90, 120, 151, 181, 212, 243, 273, 304, 334>>[m]
      + (IF m > 2 /\ IsLeap(y) THEN 1 ELSE 0)

toordinal(dt) ==
    LET y1 == dt.year - 1
    IN  y1 * 365 + (y1 \div 4) - (y1 \div 100) + (y1 \div 400)
          + DaysBeforeMonth(dt.year, dt.month) + dt.day

weekday(dt) == (toordinal(dt) + 6) % 7

DateKey(dt) == dt.year * 10000 + dt.month * 100 + dt.day

DateLt(a, b) == DateKey(a) < DateKey(b)

DateLe(a, b) == DateKey(a) <= DateKey(b)

DateMax(a, b) == IF DateLt(a, b) THEN b ELSE a

DateMin(a, b) == IF DateLt(b, a) THEN b ELSE a

NextDay(dt) ==
    IF dt.day < DaysInMonth(dt.year, dt.month)
      THEN _make_date(dt.year, dt.month, dt.day + 1)
    ELSE IF dt.month < 12
      THEN _make_date(dt.year, dt.month + 1, 1)
    ELSE _make_date(dt.year + 1, 1, 1)

PrevDay(dt) ==
    IF dt.day > 1
      THEN _make_date(dt.year, dt.month, dt.day - 1)
    ELSE IF dt.month > 1
      THEN _make_date(dt.year, dt.month - 1, DaysInMonth(dt.year, dt.month - 1))
    ELSE _make_date(dt.year - 1, 12, 31)

RECURSIVE _add_days(_, _)
_add_days(d, days) ==
    IF days = 0 THEN d
    ELSE IF days > 0 THEN _add_days(NextDay(d), days - 1)
    ELSE _add_days(PrevDay(d), days + 1)

(***************************************************************************)
(* Gregorian Easter (Meeus/Jones/Butcher) and the holiday calendar.        *)
(***************************************************************************)
_easter_sunday_julian_epact(year) ==
    LET a == year % 19
        b == year \div 100
        c == year % 100
        d == b \div 4
        e == b % 4
        h == (19 * a + b - d + 15) % 30
        i == c \div 4
        k == c % 4
        l == (32 + 2 * e + 2 * i - h - k) % 7
        m == (a + 11 * h + 22 * l) \div 451
        month == (h + l - 7 * m + 114) \div 31
        day == ((h + l - 7 * m + 114) % 31) + 1
    IN  _make_date(year, month, day)

_easter_sunday(year) ==
    LET a == year % 19
        b == year \div 100
        c == year % 100
        d == b \div 4
        e == b % 4
        f == (b + 8) \div 25
        g == (b - f + 1) \div 3
        h == (19 * a + b - d - g + 15) % 30
        i == c \div 4
        k == c % 4
        l == (32 + 2 * e + 2 * i - h - k) % 7
        m == (a + 11 * h + 22 * l) \div 451
        month == (h + l - 7 * m + 114) \div 31
        day == ((h + l - 7 * m + 114) % 31) + 1
    IN  _make_date(year, month, day)

_kenya_islamic_holidays(year) ==
    CASE year = 2025 -> {_make_date(2025, 3, 31), _make_date(2025, 6, 6)}
      [] year = 2026 -> {_make_date(2026, 3, 20), _make_date(2026, 5, 27)}
      [] year = 2027 -> {_make_date(2027, 3, 10), _make_date(2027, 5, 17)}
      [] year = 2028 -> {_make_date(2028, 2, 28), _make_date(2028, 5, 5)}
      [] year = 2029 -> {_make_date(2029, 2, 16), _make_date(2029, 4, 24)}
      [] year = 2030 -> {_make_date(2030, 2, 6), _make_date(2030, 4, 13)}
      [] OTHER -> {}

_kenya_public_holidays_not_observed(year) ==
    LET easter == _easter_sunday(year)
        fixed == {_make_date(year, 1, 1), _make_date(year, 5, 1), _make_date(year, 6, 1),
                  _make_date(year, 10, 10), _make_date(year, 10, 20),
                  _make_date(year, 12, 12), _make_date(year, 12, 25),
                  _make_date(year, 12, 26)}
        movable == {_add_days(easter, 0 - 2), _add_days(easter, 1)}
    IN  fixed \cup movable \cup _kenya_islamic_holidays(year)

_kenya_public_holidays(year) ==
    LET easter == _easter_sunday(year)
        fixed == {_make_date(year, 1, 1), _make_date(year, 5, 1), _make_date(year, 6, 1),
                  _make_date(year, 10, 10), _make_date(year, 10, 20),
                  _make_date(year, 12, 12), _make_date(year, 12, 25),
                  _make_date(year, 12, 26)}
        movable == {_add_days(easter, 0 - 2), _add_days(easter, 1)}
        holidays == fixed \cup movable \cup _kenya_islamic_holidays(year)
        observed == {_add_days(h, 1) : h \in {x \in holidays : weekday(x) = 6}}
    IN  holidays \cup observed

_is_chargeable_sunday_only(day_value) == weekday(day_value) # 6

_is_chargeable_leave_day(day_value) ==
    IF weekday(day_value) = 6 THEN FALSE
    ELSE IF day_value \in _kenya_public_holidays(day_value.year) THEN FALSE
    ELSE TRUE

(***************************************************************************)
(* Entitlement period and accrual.                                         *)
(***************************************************************************)
safe_date_no_clamp(y, m, day) ==
    IF ValidDate(y, m, day) THEN _make_date(y, m, day) ELSE _make_date(y, m + 1, 1)

safe_date(y, m, day) ==
    IF ValidDate(y, m, day) THEN _make_date(y, m, day) ELSE _make_date(y, m, 28)

_anniversary_on_or_before(hire_date, d) ==
    LET ann == safe_date(d.year, hire_date.month, hire_date.day)
    IN  IF DateLt(d, ann)
          THEN safe_date(d.year - 1, hire_date.month, hire_date.day)
        ELSE ann

_add_year(d) == safe_date(d.year + 1, d.month, d.day)

Max0(n) == IF n < 0 THEN 0 ELSE n

_full_months_between(period_start, as_of) ==
    IF DateLt(as_of, period_start) THEN 0
    ELSE LET months == (as_of.year - period_start.year) * 12
                         + (as_of.month - period_start.month)
         IN  Max0(IF as_of.day < period_start.day THEN months - 1 ELSE months)

(***************************************************************************)
(* _event_leave_days_within_window: the chargeable dates of                *)
(* [start date, end date) clamped to the window [w_start, w_end).          *)
(***************************************************************************)
RECURSIVE CountChargeable(_, _)
CountChargeable(d, ed2) ==
    IF ~DateLt(d, ed2) THEN 0
    ELSE (IF _is_chargeable_leave_day(d) THEN 1 ELSE 0) + CountChargeable(NextDay(d), ed2)

_event_leave_days_start_clamp_only(e_start, e_end, w_start, w_end) ==
    LET s2 == DateMax(e_start, w_start)
    IN  IF DateLe(e_end, s2) THEN 0 ELSE CountChargeable(s2, e_end)

_event_leave_days_within_window(e_start, e_end, w_start, w_end) ==
    LET s2 == DateMax(e_start, w_start)
        ed2 == DateMin(e_end, w_end)
    IN  IF DateLe(ed2, s2) THEN 0 ELSE CountChargeable(s2, ed2)

(***************************************************************************)
(* Event rows.  exists is "no" for an id not yet allocated, "yes" for a    *)
(* stored row and "gone" for a deleted one (ids are never reused).         *)
(***************************************************************************)
NoEvent ==
    [exists |-> "no", user_id |-> None, type |-> "", start_ts |-> 0, end_ts |-> 0,
     status |-> "", requested_by_id |-> None, first_approved_by_id |-> None,
     second_approved_by_id |-> None, approved_by_id |-> None,
     approved_at |-> FALSE, rejection_reason |-> "none"]

GoneEvent == [NoEvent EXCEPT !.exists = "gone"]

Event(user_id, start_ts, end_ts, type, status, requested_by_id) ==
    [NoEvent EXCEPT !.exists = "yes", !.user_id = user_id, !.type = type,
                    !.start_ts = start_ts, !.end_ts = end_ts, !.status = status,
                    !.requested_by_id = requested_by_id]

(***************************************************************************)
(* compute_leave_balance.  Day amounts are integers in hundredths of a day *)
(* (1.75 is 175); every figure the code rounds to two decimals is exact in *)
(* hundredths.  Event timestamps are all-day timestamps: day n of the      *)
(* store is the date n days after Day0.  A profile holds the leave fields  *)
(* of the user row.                                                        *)
(***************************************************************************)
ACCRUAL_RATE_PER_MONTH == 175

ANNUAL_CAP == 2100

Day0 == _make_date(2025, 12, 23)

DateOf(n) == _add_days(Day0, n)

Profile(hire_date, created_at, leave_opening_as_of, leave_opening_accrued, leave_opening_used) ==
    [hire_date |-> hire_date, created_at |-> created_at,
     leave_opening_as_of |-> leave_opening_as_of,
     leave_opening_accrued |-> leave_opening_accrued,
     leave_opening_used |-> leave_opening_used]

accrued_since_anchor_uncapped(months_accrued) == months_accrued * ACCRUAL_RATE_PER_MONTH

accrued_since_anchor_capped(months_accrued) ==
    LET accrued_since_anchor == months_accrued * ACCRUAL_RATE_PER_MONTH
    IN  IF ANNUAL_CAP < accrued_since_anchor THEN ANNUAL_CAP ELSE accrued_since_anchor

used_filter_any_status(e, user_id, usage_window_start, period_end) ==
    /\ e.exists = "yes"
    /\ e.user_id = user_id
    /\ e.type = "Leave"
    /\ DateLt(DateOf(e.start_ts), period_end)
    /\ DateLt(usage_window_start, DateOf(e.end_ts))

used_filter(e, user_id, usage_window_start, period_end) ==
    /\ e.exists = "yes"
    /\ e.user_id = user_id
    /\ e.type = "Leave"
    /\ e.status = "approved"
    /\ DateLt(DateOf(e.start_ts), period_end)
    /\ DateLt(usage_window_start, DateOf(e.end_ts))

RECURSIVE SumUsed(_, _, _, _)
SumUsed(evts, ids, w_start, w_end) ==
    IF ids = {} THEN 0
    ELSE LET i == CHOOSE x \in ids : TRUE
         IN  100 * _event_leave_days_within_window(DateOf(evts[i].start_ts),
                                                    DateOf(evts[i].end_ts), w_start, w_end)
               + SumUsed(evts, ids \ {i}, w_start, w_end)

accrual_anchor_period_start_only(opening_as_of, period_start, as_of) == period_start

accrual_anchor_for(opening_as_of, period_start, as_of) ==
    IF opening_as_of # NoDate /\ DateLe(period_start, opening_as_of)
       /\ DateLe(opening_as_of, as_of)
      THEN opening_as_of ELSE period_start

usage_window_start_period_start_only(opening_as_of, period_start, period_end) == period_start

usage_window_start_for(opening_as_of, period_start, period_end) ==
    IF opening_as_of # NoDate /\ DateLe(period_start, opening_as_of)
       /\ DateLt(opening_as_of, period_end)
      THEN opening_as_of ELSE period_start

compute_leave_balance(evts, user_id, user, as_of) ==
    LET hire == IF user.hire_date # NoDate THEN user.hire_date
                ELSE IF user.created_at # NoDate THEN user.created_at ELSE as_of
        opening_as_of == user.leave_opening_as_of
        opening_accrued == user.leave_opening_accrued
        opening_used == user.leave_opening_used
        period_start == _anniversary_on_or_before(hire, as_of)
        period_end == _add_year(period_start)
        accrual_anchor == accrual_anchor_for(opening_as_of, period_start, as_of)
        months_accrued == _full_months_between(accrual_anchor, as_of)
        accrued == opening_accrued + accrued_since_anchor_capped(months_accrued)
        usage_window_start == usage_window_start_for(opening_as_of, period_start, period_end)
        q == {i \in DOMAIN evts : used_filter(evts[i], user_id, usage_window_start, period_end)}
        used == opening_used + SumUsed(evts, q, usage_window_start, period_end)
    IN  [user_id |-> user_id, as_of |-> as_of, period_start |-> period_start,
         period_end |-> period_end, usage_window_start |-> usage_window_start,
         months_accrued |-> months_accrued, accrued |-> accrued, used |-> used,
         remaining |-> accrued - used]

(***************************************************************************)
(* designated_approvers of single-step mode.                               *)
(***************************************************************************)
designated_approvers(u, owner) ==
    (IF owner.first_approver_id # None /\ _is_supervisor_user(u, owner.first_approver_id)
        THEN {owner.first_approver_id} ELSE {})
    \cup
    (IF owner.second_approver_id # None /\ _is_admin_user(u, owner.second_approver_id)
        THEN {owner.second_approver_id} ELSE {})

(***************************************************************************)
(* A handler that raises never reaches db.commit(): the stored row stays   *)
(* as it was and the session object (with whatever was assigned to it) is  *)
(* dropped with the request.  A handler that commits writes the session    *)
(* object.                                                                 *)
(***************************************************************************)
RaiseAfterFlush(kind, stored, session) == [result |-> kind, e |-> session]

Raise(kind, stored, session) == [result |-> kind, e |-> stored]

Commit(session) == [result |-> "ok", e |-> session]

(***************************************************************************)
(* The single conditions of approve_leave_request and                      *)
(* reject_leave_request, in the order of the code.                         *)
(***************************************************************************)
request_found(e) == e.exists = "yes" /\ e.type \in {"Leave", "Hospital"}

status_not_pending_skipped(e) == FALSE

status_not_pending(e) == e.status # "pending"

invalid_approval_setup(u, first_approver_id, second_approver_id) ==
    \/ first_approver_id = None \/ second_approver_id = None
    \/ ~_is_supervisor_user(u, first_approver_id)
    \/ ~_is_admin_user(u, second_approver_id)

not_assigned_first_only(u, a, first_approver_id, second_approver_id) ==
    a # first_approver_id \/ u[a].role # "supervisor"

not_assigned(u, a, first_approver_id, second_approver_id) ==
    \/ a \notin {first_approver_id, second_approver_id}
    \/ (a = first_approver_id /\ u[a].role # "supervisor")
    \/ (a = second_approver_id /\ ~_is_admin_like(u[a].role))

order_violation_skipped(e, a, second_approver_id) == FALSE

order_violation(e, a, second_approver_id) ==
    a = second_approver_id /\ e.first_approved_by_id = None

first_already_recorded(e, a, first_approver_id) ==
    a = first_approver_id /\ e.first_approved_by_id # None

second_already_recorded(e, a, second_approver_id) ==
    a = second_approver_id /\ e.second_approved_by_id # None

both_approvals_completed_first_only(e) == e.first_approved_by_id # None

both_approvals_completed(e) ==
    e.first_approved_by_id # None /\ e.second_approved_by_id # None

back_fill_overwrites(slot, a) == a

back_fill(slot, a) == IF slot = None THEN a ELSE slot

(***************************************************************************)
(* approve_leave_request, two-step branch: setup, authorization, ordering  *)
(* and the recording of the acting approver's slot on the session object.  *)
(***************************************************************************)
approve_two_step_checks(u, e, owner, a) ==
    LET first_approver_id == owner.first_approver_id
        second_approver_id == owner.second_approver_id
    IN  IF invalid_approval_setup(u, first_approver_id, second_approver_id)
          THEN [result |-> "InvalidApprovalSetup", e |-> e]
        ELSE IF not_assigned(u, a, first_approver_id, second_approver_id)
          THEN [result |-> "NotAuthorized", e |-> e]
        ELSE IF order_violation(e, a, second_approver_id)
          THEN [result |-> "OrderViolation", e |-> e]
        ELSE IF first_already_recorded(e, a, first_approver_id)
          THEN [result |-> "AlreadyRecorded", e |-> e]
        ELSE LET e1 == IF a = first_approver_id
                         THEN [e EXCEPT !.first_approved_by_id = a] ELSE e
             IN  IF second_already_recorded(e1, a, second_approver_id)
                   THEN [result |-> "AlreadyRecorded", e |-> e1]
                 ELSE [result |-> "ok",
                       e |-> IF a = second_approver_id
                               THEN [e1 EXCEPT !.second_approved_by_id = a] ELSE e1]

(***************************************************************************)
(* approve_leave_request, single-step branch before the validator.         *)
(***************************************************************************)
approve_single_step_checks(u, e, owner, a) ==
    LET designated == designated_approvers(u, owner)
    IN  IF designated # {}
          THEN IF a \notin designated
                 THEN [result |-> "NotAuthorized", e |-> e]
               ELSE IF a = owner.first_approver_id /\ u[a].role # "supervisor"
                 THEN [result |-> "NotAuthorized", e |-> e]
               ELSE IF a = owner.second_approver_id /\ ~_is_admin_like(u[a].role)
                 THEN [result |-> "NotAuthorized", e |-> e]
               ELSE [result |-> "ok", e |-> e]
        ELSE [result |-> "ok", e |-> e]

(***************************************************************************)
(* approve_leave_request after the validator: the status decision.         *)
(***************************************************************************)
approve_two_step_finish_no_approved_at(e, a) ==
    IF both_approvals_completed(e)
      THEN [result |-> "ok",
            e |-> [e EXCEPT !.status = "approved", !.approved_by_id = a,
                            !.rejection_reason = "none"]]
    ELSE [result |-> "ok", e |-> [e EXCEPT !.status = "pending"]]

approve_two_step_finish(e, a) ==
    IF both_approvals_completed(e)
      THEN [result |-> "ok",
            e |-> [e EXCEPT !.status = "approved", !.approved_by_id = a,
                            !.approved_at = TRUE, !.rejection_reason = "none"]]
    ELSE [result |-> "ok", e |-> [e EXCEPT !.status = "pending"]]

back_fill_first_slot_skipped(e, a) == e

back_fill_first_slot(e, a) == [e EXCEPT !.first_approved_by_id = back_fill(@, a)]

back_fill_second_slot(e, a) == [e EXCEPT !.second_approved_by_id = back_fill(@, a)]

approve_single_step_finish_no_back_fill(u, e, owner, a) ==
    [result |-> "ok",
     e |-> [e EXCEPT !.status = "approved", !.approved_by_id = a,
                     !.approved_at = TRUE, !.rejection_reason = "none"]]

approve_single_step_finish(u, e, owner, a) ==
    LET designated == designated_approvers(u, owner)
    IN  IF designated # {} /\ a \notin designated
          THEN [result |-> "NotAuthorized", e |-> e]
        ELSE IF designated = {} /\ ~_is_admin_like(u[a].role)
          THEN [result |-> "NotAuthorized", e |-> e]
        ELSE [result |-> "ok",
              e |-> back_fill_second_slot(
                      back_fill_first_slot(
                        [e EXCEPT !.status = "approved", !.approved_by_id = a,
                                  !.approved_at = TRUE, !.rejection_reason = "none"], a), a)]

(***************************************************************************)
(* approve_leave_request as a function of the rows it reads: the result    *)
(* kind and the row the store holds afterwards.                            *)
(***************************************************************************)
approve_leave_request(u, stored, a) ==
    IF ~require_leave_approver(u, a)
      THEN Raise("NotAuthorized", stored, stored)
    ELSE IF ~request_found(stored)
      THEN Raise("NotFound", stored, stored)
    ELSE IF status_not_pending(stored)
      THEN Raise("NotPending", stored, stored)
    ELSE
      LET owner == u[stored.user_id]
          requires_two_step == owner.require_two_step_leave_approval
          checked == IF requires_two_step
                       THEN approve_two_step_checks(u, stored, owner, a)
                       ELSE approve_single_step_checks(u, stored, owner, a)
      IN  IF checked.result # "ok"
            THEN Raise(checked.result, stored, checked.e)
          ELSE IF ~validate_leave_request(checked.e.start_ts, checked.e.end_ts)
            THEN Raise("InvalidDuration", stored, checked.e)
          ELSE LET finished == IF requires_two_step
                                 THEN approve_two_step_finish(checked.e, a)
                                 ELSE approve_single_step_finish(u, checked.e, owner, a)
               IN  IF finished.result # "ok"
                     THEN Raise(finished.result, stored, finished.e)
                   ELSE Commit(finished.e)

(***************************************************************************)
(* reject_leave_request.  payload.reason is stripped; an empty reason      *)
(* becomes the default text.                                               *)
(***************************************************************************)
reject_authorization(u, owner, a) ==
    IF owner.require_two_step_leave_approval
      THEN IF not_assigned(u, a, owner.first_approver_id, owner.second_approver_id)
             THEN "NotAuthorized"
           ELSE "ok"
    ELSE LET designated == designated_approvers(u, owner)
         IN  IF designated # {}
               THEN IF a \notin designated
                      THEN "NotAuthorized"
                    ELSE IF a = owner.first_approver_id /\ u[a].role # "supervisor"
                      THEN "NotAuthorized"
                    ELSE IF a = owner.second_approver_id /\ ~_is_admin_like(u[a].role)
                      THEN "NotAuthorized"
                    ELSE "ok"
             ELSE IF ~_is_admin_like(u[a].role)
               THEN "NotAuthorized"
             ELSE "ok"

stored_reason(reason) == IF Strip(reason) = "" THEN "Rejected by approver" ELSE Strip(reason)

reject_leave_request(u, stored, a, reason) ==
    IF ~require_leave_approver(u, a)
      THEN Raise("NotAuthorized", stored, stored)
    ELSE IF ~request_found(stored)
      THEN Raise("NotFound", stored, stored)
    ELSE IF status_not_pending(stored)
      THEN Raise("NotPending", stored, stored)
    ELSE
      LET owner == u[stored.user_id]
          auth == reject_authorization(u, owner, a)
      IN  IF auth # "ok"
            THEN Raise(auth, stored, stored)
          ELSE Commit([stored EXCEPT !.status = "rejected", !.approved_by_id = a,
                                     !.approved_at = TRUE,
                                     !.rejection_reason = stored_reason(reason)])

(***************************************************************************)
(* _compute_leave_review_permissions: <<can_approve, can_reject>>.         *)
(***************************************************************************)
_compute_leave_review_permissions(u, current, e, owner) ==
    IF ~_is_leave_like_event(e) \/ StripLower(e.status) # "pending"
      THEN <<FALSE, FALSE>>
    ELSE IF owner.require_two_step_leave_approval
      THEN IF owner.first_approver_id = None \/ owner.second_approver_id = None
             THEN <<FALSE, FALSE>>
           ELSE IF ~_is_supervisor_user(u, owner.first_approver_id)
             THEN <<FALSE, FALSE>>
           ELSE IF ~_is_admin_user(u, owner.second_approver_id)
             THEN <<FALSE, FALSE>>
           ELSE IF current = owner.first_approver_id /\ u[current].role = "supervisor"
             THEN <<e.first_approved_by_id = None, TRUE>>
           ELSE IF current = owner.second_approver_id /\ _is_admin_like(u[current].role)
             THEN <<e.first_approved_by_id # None /\ e.second_approved_by_id = None, TRUE>>
           ELSE <<FALSE, FALSE>>
    ELSE LET designated == designated_approvers(u, owner)
         IN  IF designated # {}
               THEN IF current \notin designated
                      THEN <<FALSE, FALSE>>
                    ELSE IF current = owner.first_approver_id /\ u[current].role # "supervisor"
                      THEN <<FALSE, FALSE>>
                    ELSE IF current = owner.second_approver_id /\ ~_is_admin_like(u[current].role)
                      THEN <<FALSE, FALSE>>
                    ELSE <<TRUE, TRUE>>
             ELSE <<_is_admin_like(u[current].role), _is_admin_like(u[current].role)>>

(***************************************************************************)
(* The state after construction: an employee, a supervisor and an admin,   *)
(* no designated approvers, no events.                                     *)
(***************************************************************************)
User(role) ==
    [role |-> role, first_approver_id |-> None, second_approver_id |-> None,
     require_two_step_leave_approval |-> FALSE]

Idle ==
    [pc |-> "idle", op |-> "", actor |-> None, id |-> None, snap |-> NoEvent,
     result |-> "", first |-> FALSE]

NoProbe == [op |-> "none"]

Call(op, actor, id, result) == [op |-> op, actor |-> actor, id |-> id, result |-> result]

Init ==
    /\ users = [i \in UserIds |->
                  User(CASE i = 1 -> "employee" [] i = 2 -> "supervisor" [] OTHER -> "ceo")]
    /\ events = [i \in EventIds |-> NoEvent]
    /\ last = Call("init", None, None, "ok")
    /\ txn = [w \in Workers |-> Idle]
    /\ probe = NoProbe

FreeIds == {i \in DOMAIN events : events[i].exists = "no"}

NextId == CHOOSE i \in FreeIds : \A j \in FreeIds : i <= j

(***************************************************************************)
(* POST /leave/requests                                                    *)
(***************************************************************************)
CreateLeaveRequest(user, start_ts, end_ts) ==
    /\ FreeIds # {}
    /\ IF ~validate_leave_request(start_ts, end_ts)
         THEN /\ last' = Call("create_leave_request", user, None, "InvalidDuration")
              /\ UNCHANGED events
         ELSE /\ events' = [events EXCEPT ![NextId] =
                               Event(user, start_ts, end_ts, "Leave", "pending", user)]
              /\ last' = Call("create_leave_request", user, NextId, "ok")
    /\ UNCHANGED <<users, txn, probe>>

(***************************************************************************)
(* POST /events                                                            *)
(***************************************************************************)
CreateEvent(user, type, start_ts, end_ts) ==
    LET normalized_type == Strip(type)
        is_leave_like == Lower(normalized_type) \in {"leave", "hospital"}
    IN  /\ FreeIds # {}
        /\ IF normalized_type = "Leave" /\ ~validate_leave_request(start_ts, end_ts)
             THEN /\ last' = Call("create_event", user, None, "InvalidDuration")
                  /\ UNCHANGED events
             ELSE /\ events' = [events EXCEPT ![NextId] =
                                   Event(user, start_ts, end_ts, type,
                                         IF is_leave_like THEN "pending" ELSE "approved",
                                         IF is_leave_like THEN user ELSE None)]
                  /\ last' = Call("create_event", user, NextId, "ok")
        /\ UNCHANGED <<users, txn, probe>>

(***************************************************************************)
(* PATCH /events/{event_id}.  A payload field is Unset or a new value.     *)
(***************************************************************************)
update_event(stored, user, p_start, p_end, p_type) ==
    IF stored.exists # "yes"
      THEN Raise("NotFound", stored, stored)
    ELSE IF _is_past_current_day_event(stored)
      THEN Raise("PastDay", stored, stored)
    ELSE IF stored.user_id # user
      THEN Raise("NotAuthorized", stored, stored)
    ELSE
      LET new_start == IF p_start # Unset THEN p_start ELSE stored.start_ts
          new_end == IF p_end # Unset THEN p_end ELSE stored.end_ts
          new_type == IF p_type # UnsetStr THEN p_type ELSE stored.type
      IN  IF Strip(new_type) = "Leave" /\ ~validate_leave_request(new_start, new_end)
            THEN Raise("InvalidDuration", stored, stored)
          ELSE Commit([stored EXCEPT !.start_ts = new_start, !.end_ts = new_end,
                                     !.type = new_type])

UpdateEvent(user, id, p_start, p_end, p_type) ==
    LET r == update_event(events[id], user, p_start, p_end, p_type)
    IN  /\ events' = [events EXCEPT ![id] = r.e]
        /\ last' = Call("update_event", user, id, r.result)
        /\ UNCHANGED <<users, txn, probe>>

(***************************************************************************)
(* DELETE /events/{event_id}                                               *)
(***************************************************************************)
delete_event(stored, user) ==
    IF stored.exists # "yes"
      THEN Raise("NotFound", stored, stored)
    ELSE IF _is_past_current_day_event(stored)
      THEN Raise("PastDay", stored, stored)
    ELSE IF stored.user_id # user
      THEN Raise("NotAuthorized", stored, stored)
    ELSE Commit(GoneEvent)

DeleteEvent(user, id) ==
    LET r == delete_event(events[id], user)
    IN  /\ events' = [events EXCEPT ![id] = r.e]
        /\ last' = Call("delete_event", user, id, r.result)
        /\ UNCHANGED <<users, txn, probe>>

(***************************************************************************)
(* PATCH /admin/users/{user_id}/profile, restricted to the role and the    *)
(* leave approval fields.  incoming holds the fields the payload sets.     *)
(***************************************************************************)
admin_update_user_profile(u, actor, user_id, p_role, p_first, p_second, p_has_two_step, p_two_step) ==
    IF ~require_admin(u, actor)
      THEN [result |-> "NotAuthorized", users |-> u]
    ELSE IF p_role # UnsetStr /\ ~_is_valid_role(p_role)
      THEN [result |-> "InvalidRole", users |-> u]
    ELSE
      LET target == u[user_id]
          first_approver_id == IF p_first # Unset THEN p_first ELSE target.first_approver_id
          second_approver_id == IF p_second # Unset THEN p_second ELSE target.second_approver_id
          requires_two_step == IF p_has_two_step THEN p_two_step
                               ELSE target.require_two_step_leave_approval
      IN  IF first_approver_id # None /\ ~_is_supervisor_user(u, first_approver_id)
            THEN [result |-> "InvalidApprover", users |-> u]
          ELSE IF second_approver_id # None /\ ~_is_admin_user(u, second_approver_id)
            THEN [result |-> "InvalidApprover", users |-> u]
          ELSE IF first_approver_id # None /\ second_approver_id # None
                  /\ first_approver_id = second_approver_id
            THEN [result |-> "InvalidApprover", users |-> u]
          ELSE IF requires_two_step /\ (first_approver_id = None \/ second_approver_id = None)
            THEN [result |-> "InvalidApprover", users |-> u]
          ELSE [result |-> "ok",
                users |-> [u EXCEPT ![user_id] =
                    [role |-> IF p_role # UnsetStr THEN StripLower(p_role) ELSE target.role,
                     first_approver_id |-> first_approver_id,
                     second_approver_id |-> second_approver_id,
                     require_two_step_leave_approval |-> requires_two_step]]]

AdminUpdateUserProfile(actor, user_id, p_role, p_first, p_second, p_has_two_step, p_two_step) ==
    LET r == admin_update_user_profile(users, actor, user_id, p_role, p_first, p_second,
                                       p_has_two_step, p_two_step)
    IN  /\ users' = r.users
        /\ last' = Call("admin_update_user_profile", actor, user_id, r.result)
        /\ UNCHANGED <<events, txn, probe>>

(***************************************************************************)
(* POST /leave/requests/{event_id}/approve and .../reject, each run from   *)
(* its first read to its commit without interruption.                      *)
(***************************************************************************)
Approve(approver, id) ==
    LET r == approve_leave_request(users, events[id], approver)
    IN  /\ events' = [events EXCEPT ![id] = r.e]
        /\ last' = Call("approve", approver, id, r.result)
        /\ UNCHANGED <<users, txn, probe>>

Reject(approver, id, reason) ==
    LET r == reject_leave_request(users, events[id], approver, reason)
    IN  /\ events' = [events EXCEPT ![id] = r.e]
        /\ last' = Call("reject", approver, id, r.result)
        /\ UNCHANGED <<users, txn, probe>>

Next ==
    \/ \E user \in Owners, s \in StartDays, e \in Days : CreateLeaveRequest(user, s, e)
    \/ \E user \in Owners, t \in LeaveTypes, s \in StartDays, e \in Days :
          CreateEvent(user, t, s, e)
    \/ \E user \in Editors, id \in EventIds, s \in StartDays \cup {Unset},
          e \in Days \cup {Unset}, t \in LeaveTypes \cup {UnsetStr} :
          UpdateEvent(user, id, s, e, t)
    \/ \E user \in Editors, id \in EventIds : DeleteEvent(user, id)
    \/ \E actor \in AdminActors, target \in UserIds : \E r \in RoleChoices[target] :
          AdminUpdateUserProfile(actor, target, r, Unset, Unset, FALSE, FALSE)
    \/ \E actor \in AdminActors, target \in Owners,
          f \in FirstChoices, s \in SecondChoices, ht \in TwoStepChoices :
          AdminUpdateUserProfile(actor, target, UnsetStr, f, s, ht[1], ht[2])
    \/ \E a \in UserIds, id \in EventIds : Approve(a, id)
    \/ \E a \in UserIds, id \in EventIds, reason \in Reasons : Reject(a, id, reason)

Spec == Init /\ [][Next]_vars

(***************************************************************************)
(* Two approve / reject calls served by separate workers, each with its    *)
(* own session on the shared store.  A call first reads the event row      *)
(* (db.query(Event)...first(), no FOR UPDATE), then runs its checks on     *)
(* what it read and commits.  The flush writes the columns the call        *)
(* assigned a new value to; nothing compares the row with what was read.   *)
(***************************************************************************)
flush(current, snap, session) ==
    [f \in DOMAIN current |-> IF session[f] # snap[f] THEN session[f] ELSE current[f]]

CallOn(w, row) ==
    IF txn[w].op = "approve"
      THEN approve_leave_request(users, row, txn[w].actor)
      ELSE reject_leave_request(users, row, txn[w].actor, "")

BeginCall(w, op, a, id) ==
    /\ txn[w].pc = "idle"
    /\ txn' = [txn EXCEPT ![w] =
                 [pc |-> "read", op |-> op, actor |-> a, id |-> id, snap |-> events[id],
                  result |-> "", first |-> \A v \in Workers : txn[v].pc = "idle"]]
    /\ UNCHANGED <<users, events, last, probe>>

CommitCall(w) ==
    /\ txn[w].pc = "read"
    /\ LET r == CallOn(w, txn[w].snap)
       IN  /\ events' = IF r.result = "ok"
                          THEN [events EXCEPT ![txn[w].id] = flush(@, txn[w].snap, r.e)]
                          ELSE events
           /\ txn' = [txn EXCEPT ![w].pc = "done", ![w].result = r.result]
    /\ UNCHANGED <<users, last, probe>>

(***************************************************************************)
(* The concurrent calls start from a pending request of an employee whose  *)
(* approvers are the supervisor and the admin, in either mode, with or     *)
(* without a first approval already recorded.                              *)
(***************************************************************************)
InitConc ==
    /\ \E two_step \in BOOLEAN :
          users = [i \in UserIds |->
                     IF i = 1
                       THEN [role |-> "employee", first_approver_id |-> 2,
                             second_approver_id |-> 3,
                             require_two_step_leave_approval |-> two_step]
                     ELSE User(IF i = 2 THEN "supervisor" ELSE "ceo")]
    /\ \E recorded \in {None, 2} :
          events = [i \in EventIds |->
                      [Event(1, 1, 2, "Leave", "pending", 1)
                         EXCEPT !.first_approved_by_id = recorded]]
    /\ last = Call("init", None, None, "ok")
    /\ txn = [w \in Workers |-> Idle]
    /\ probe = NoProbe

NextConc ==
    \/ \E w \in Workers, op \in {"approve", "reject"}, a \in UserIds, id \in EventIds :
          BeginCall(w, op, a, id)
    \/ \E w \in Workers : CommitCall(w)

SpecConc == InitConc /\ [][NextConc]_vars

(***************************************************************************)
(* The leave balance over the life of one request.  The employee has the   *)
(* supervisor and the admin as approvers, in either mode, and already has  *)
(* an approved Leave request on days [4, 7); a second request is created,  *)
(* edited, reviewed or deleted.  Day 0 is Tuesday 2025-12-23, so days 2    *)
(* and 3 are Christmas and Boxing Day, day 4 is a Saturday and day 5 a     *)
(* Sunday.                                                                 *)
(***************************************************************************)
BalanceStartDays == {1, 4}

BalanceEndDays == {1, 3, 5, 4 + MaxSpan}

BalanceReviewers == {2, 3}

InitBalance ==
    /\ \E two_step \in BOOLEAN :
          users = [i \in UserIds |->
                     IF i = 1
                       THEN [role |-> "employee", first_approver_id |-> 2,
                             second_approver_id |-> 3,
                             require_two_step_leave_approval |-> two_step]
                     ELSE User(IF i = 2 THEN "supervisor" ELSE "ceo")]
    /\ events = [i \in {1, 2} |->
                   IF i = 1 THEN NoEvent
                   ELSE [Event(1, 4, 7, "Leave", "approved", 1)
                           EXCEPT !.first_approved_by_id = 2, !.second_approved_by_id = 3,
                                  !.approved_by_id = 3, !.approved_at = TRUE]]
    /\ last = Call("init", None, None, "ok")
    /\ txn = [w \in Workers |-> Idle]
    /\ probe = NoProbe

NextBalance ==
    \/ \E s \in BalanceStartDays, e \in BalanceEndDays : CreateLeaveRequest(1, s, e)
    \/ \E t \in LeaveTypes, s \in BalanceStartDays, e \in BalanceEndDays :
          CreateEvent(1, t, s, e)
    \/ \E t \in LeaveTypes : UpdateEvent(1, 1, Unset, Unset, t)
    \/ DeleteEvent(1, 1)
    \/ \E a \in BalanceReviewers : Approve(a, 1)
    \/ \E a \in BalanceReviewers : Reject(a, 1, "")

SpecBalance == InitBalance /\ [][NextBalance]_vars

(***************************************************************************)
(* The calendar and accrual functions of leave_service.py on their own.    *)
(* A probe is one call: it starts with its inputs drawn from the dates     *)
(* below and ends with the values the function returns.  An accrual probe  *)
(* can be repeated for a later as_of with the same anchor.                 *)
(***************************************************************************)
ProbeYears == 2024..MaxYear

ProbeDays == {1, 15, 28, 29, 30, 31}

ProbeDates ==
    {_make_date(y, m, d) : <<y, m, d>> \in
        {t \in ProbeYears \X (1..12) \X ProbeDays : ValidDate(t[1], t[2], t[3])}}

FirstYearDates == {d \in ProbeDates : d.year = 2024}

HireDates ==
    {_make_date(2020, 2, 29), _make_date(2019, 3, 1), _make_date(2021, 12, 31),
     _make_date(2020, 1, 1), _make_date(2022, 6, 15), _make_date(2023, 2, 28)}

AnchorDates ==
    {_make_date(2024, 1, 31), _make_date(2024, 2, 29), _make_date(2024, 3, 1),
     _make_date(2024, 12, 15)}

OpeningChoices == {0, 525}

ChargeYears == {2025, 2026}

ChargeDates ==
    {_make_date(y, m, d) : <<y, m, d>> \in
        {t \in ChargeYears \X (1..12) \X (1..31) : ValidDate(t[1], t[2], t[3])}}

HolidayYears == 2023..(MaxYear + 5)

EasterYears == 1900..2199

BaselineDates ==
    {NoDate, _make_date(2024, 6, 15), _make_date(2025, 1, 31), _make_date(2025, 3, 1),
     _make_date(2025, 8, 31), _make_date(2026, 2, 28)}

BalanceAsOfDates == {d \in ProbeDates : d.year >= 2025}

WindowBase == _make_date(2025, 12, 27)

WindowDates == {_add_days(WindowBase, n) : n \in 0..(WindowDays - 1)}

InitCalendar ==
    /\ users = [i \in UserIds |->
                  User(CASE i = 1 -> "employee" [] i = 2 -> "supervisor" [] OTHER -> "ceo")]
    /\ events = [i \in EventIds |-> NoEvent]
    /\ last = Call("init", None, None, "ok")
    /\ txn = [w \in Workers |-> Idle]
    /\ \/ \E hire_date \in HireDates, as_of \in ProbeDates :
             probe = [op |-> "resolve", pc |-> "input", hire_date |-> hire_date,
                      as_of |-> as_of]
       \/ \E anchor \in AnchorDates, as_of \in FirstYearDates, opening \in OpeningChoices :
             probe = [op |-> "accrue", pc |-> "input", accrual_anchor |-> anchor,
                      as_of |-> as_of, opening_accrued |-> opening]
       \/ \E day_value \in ChargeDates :
             probe = [op |-> "chargeable", pc |-> "input", day_value |-> day_value]
       \/ \E hire_date \in HireDates, opening_as_of \in BaselineDates,
             as_of \in BalanceAsOfDates, opening \in OpeningChoices :
             probe = [op |-> "balance", pc |-> "input",
                      user |-> Profile(hire_date, NoDate, opening_as_of, opening, 0),
                      as_of |-> as_of]
       \/ \E year \in HolidayYears :
             probe = [op |-> "holidays", pc |-> "input", year |-> year]
       \/ \E year \in EasterYears :
             probe = [op |-> "easter", pc |-> "input", year |-> year]
       \/ \E e_start \in WindowDates, e_end \in WindowDates,
             a \in WindowDates, b \in WindowDates, c \in WindowDates :
             /\ DateLe(a, b) /\ DateLe(b, c)
             /\ probe = [op |-> "count", pc |-> "input", e_start |-> e_start,
                         e_end |-> e_end, a |-> a, b |-> b, c |-> c]

ResolvePeriod ==
    /\ probe.op = "resolve" /\ probe.pc = "input"
    /\ LET period_start == _anniversary_on_or_before(probe.hire_date, probe.as_of)
       IN  probe' = [op |-> "resolve", pc |-> "done", hire_date |-> probe.hire_date,
                     as_of |-> probe.as_of, period_start |-> period_start,
                     period_end |-> _add_year(period_start)]
    /\ UNCHANGED <<users, events, last, txn>>

accrue(accrual_anchor, as_of, opening_accrued) ==
    LET months_accrued == _full_months_between(accrual_anchor, as_of)
    IN  [op |-> "accrue", pc |-> "done", accrual_anchor |-> accrual_anchor,
         as_of |-> as_of, opening_accrued |-> opening_accrued,
         months_accrued |-> months_accrued,
         accrued |-> opening_accrued + accrued_since_anchor_capped(months_accrued)]

Accrue ==
    /\ probe.op = "accrue" /\ probe.pc = "input"
    /\ probe' = accrue(probe.accrual_anchor, probe.as_of, probe.opening_accrued)
    /\ UNCHANGED <<users, events, last, txn>>

AdvanceAsOf(as_of) ==
    /\ probe.op = "accrue" /\ probe.pc = "done"
    /\ DateLt(probe.as_of, as_of)
    /\ probe' = accrue(probe.accrual_anchor, as_of, probe.opening_accrued)
    /\ UNCHANGED <<users, events, last, txn>>

IsChargeable ==
    /\ probe.op = "chargeable" /\ probe.pc = "input"
    /\ probe' = [op |-> "chargeable", pc |-> "done", day_value |-> probe.day_value,
                 result |-> _is_chargeable_leave_day(probe.day_value)]
    /\ UNCHANGED <<users, events, last, txn>>

CountDays ==
    /\ probe.op = "count" /\ probe.pc = "input"
    /\ probe' = [op |-> "count", pc |-> "done", e_start |-> probe.e_start,
                 e_end |-> probe.e_end, a |-> probe.a, b |-> probe.b, c |-> probe.c,
                 left |-> _event_leave_days_within_window(probe.e_start, probe.e_end,
                                                          probe.a, probe.b),
                 right |-> _event_leave_days_within_window(probe.e_start, probe.e_end,
                                                           probe.b, probe.c),
                 whole |-> _event_leave_days_within_window(probe.e_start, probe.e_end,
                                                           probe.a, probe.c)]
    /\ UNCHANGED <<users, events, last, txn>>

Holidays ==
    /\ probe.op = "holidays" /\ probe.pc = "input"
    /\ probe' = [op |-> "holidays", pc |-> "done", year |-> probe.year,
                 result |-> _kenya_public_holidays(probe.year)]
    /\ UNCHANGED <<users, events, last, txn>>

HolidaysAgain ==
    /\ probe.op = "holidays" /\ probe.pc = "done"
    /\ probe' = [op |-> "holidays", pc |-> "again", year |-> probe.year,
                 result |-> probe.result,
                 again |-> _kenya_public_holidays(probe.year)]
    /\ UNCHANGED <<users, events, last, txn>>

EasterSunday ==
    /\ probe.op = "easter" /\ probe.pc = "input"
    /\ probe' = [op |-> "easter", pc |-> "done", year |-> probe.year,
                 result |-> _easter_sunday(probe.year)]
    /\ UNCHANGED <<users, events, last, txn>>

ComputeBalance ==
    /\ probe.op = "balance" /\ probe.pc = "input"
    /\ probe' = [op |-> "balance", pc |-> "done", user |-> probe.user,
                 as_of |-> probe.as_of,
                 result |-> compute_leave_balance(events, 1, probe.user, probe.as_of)]
    /\ UNCHANGED <<users, events, last, txn>>

NextCalendar ==
    \/ ResolvePeriod
    \/ Accrue
    \/ \E as_of \in ProbeDates : AdvanceAsOf(as_of)
    \/ IsChargeable
    \/ CountDays
    \/ Holidays
    \/ HolidaysAgain
    \/ EasterSunday
    \/ ComputeBalance

SpecCalendar == InitCalendar /\ [][NextCalendar]_vars

(***************************************************************************)
(* Vocabulary of the properties.                                           *)
(***************************************************************************)
(* Reviewers as owners: a supervisor and a ceo file their own leave        *)
(* requests, the admin configures their approvers, and both review.        *)
(***************************************************************************)
SelfOwners == {2, 3}

NextSelf ==
    \/ \E user \in SelfOwners, s \in StartDays, e \in Days : CreateLeaveRequest(user, s, e)
    \/ \E user \in SelfOwners, id \in EventIds : DeleteEvent(user, id)
    \/ \E actor \in AdminActors, target \in SelfOwners,
          f \in FirstChoices, s \in SecondChoices, ht \in TwoStepChoices :
          AdminUpdateUserProfile(actor, target, UnsetStr, f, s, ht[1], ht[2])
    \/ \E a \in SelfOwners, id \in EventIds : Approve(a, id)
    \/ \E a \in SelfOwners, id \in EventIds : Reject(a, id, "")

SpecSelf == Init /\ [][NextSelf]_vars

(***************************************************************************)
(* The event endpoints with every type text a client can send: the owner   *)
(* creates, retypes and deletes events, the reviewers approve and reject.  *)
(***************************************************************************)
TypeReviewers == {2, 3}

NextTypes ==
    \/ \E s \in StartDays, e \in Days : CreateLeaveRequest(1, s, e)
    \/ \E t \in EventTypes, s \in StartDays, e \in Days : CreateEvent(1, t, s, e)
    \/ \E id \in EventIds, t \in EventTypes : UpdateEvent(1, id, Unset, Unset, t)
    \/ \E id \in EventIds : DeleteEvent(1, id)
    \/ \E a \in TypeReviewers, id \in EventIds : Approve(a, id)
    \/ \E a \in TypeReviewers, id \in EventIds, reason \in Reasons : Reject(a, id, reason)

SpecTypes == Init /\ [][NextTypes]_vars

(***************************************************************************)
OwnerOf(id) == users[events[id].user_id]

IsPendingRequest(id) ==
    request_found(events[id]) /\ events[id].status = "pending"

TwoStepMode(id) == OwnerOf(id).require_two_step_leave_approval

ValidTwoStepSetup(id) ==
    /\ TwoStepMode(id)
    /\ ~invalid_approval_setup(users, OwnerOf(id).first_approver_id,
                               OwnerOf(id).second_approver_id)

ApproveCalled(id) == last'.op = "approve" /\ last'.id = id

RejectCalled(id) == last'.op = "reject" /\ last'.id = id

(***************************************************************************)
(* C1.  In two-step mode with a valid approver setup, an approve call by   *)
(* the second approver on a pending request whose first approval is not    *)
(* yet recorded fails with OrderViolation and leaves the stored request    *)
(* unchanged; an approve call in two-step mode records the second slot     *)
(* only on a request whose first slot was recorded before the call.        *)
(***************************************************************************)
C1_SecondNeverBeforeFirst ==
    [][\A id \in EventIds :
         /\ (/\ ApproveCalled(id)
             /\ IsPendingRequest(id)
             /\ ValidTwoStepSetup(id)
             /\ last'.actor = OwnerOf(id).second_approver_id
             /\ events[id].first_approved_by_id = None)
            => (last'.result = "OrderViolation" /\ events' = events)
         /\ (/\ ApproveCalled(id)
             /\ request_found(events[id])
             /\ TwoStepMode(id)
             /\ events[id].second_approved_by_id = None
             /\ events'[id].second_approved_by_id # None)
            => events[id].first_approved_by_id # None]_vars

C1_Witness ==
    \E id \in EventIds :
        /\ IsPendingRequest(id)
        /\ last = Call("approve", OwnerOf(id).second_approver_id, id, "OrderViolation")
        /\ ValidTwoStepSetup(id)
        /\ events[id].first_approved_by_id = None
        /\ events[id].second_approved_by_id = None

(***************************************************************************)
(* C2.  In two-step mode a successful approve by the first approver on a   *)
(* pending request records only first_approved_by_id: the status stays     *)
(* pending and approved_by_id / approved_at stay unset.  A successful      *)
(* approve by the second approver records second_approved_by_id and sets   *)
(* the status to approved with approved_by_id and approved_at set.  No     *)
(* approve moves a request to approved unless both slots are then set.     *)
(***************************************************************************)
C2_TwoStepProgress ==
    [][\A id \in EventIds :
         /\ (/\ ApproveCalled(id)
             /\ last'.result = "ok"
             /\ TwoStepMode(id)
             /\ last'.actor = OwnerOf(id).first_approver_id)
            => /\ events'[id] = [events[id] EXCEPT !.first_approved_by_id = last'.actor]
               /\ events[id].first_approved_by_id = None
               /\ events'[id].status = "pending"
               /\ events'[id].approved_by_id = None
               /\ events'[id].approved_at = FALSE
         /\ (/\ ApproveCalled(id)
             /\ last'.result = "ok"
             /\ TwoStepMode(id)
             /\ last'.actor = OwnerOf(id).second_approver_id)
            => /\ events'[id] = [events[id] EXCEPT !.second_approved_by_id = last'.actor,
                                                   !.status = "approved",
                                                   !.approved_by_id = last'.actor,
                                                   !.approved_at = TRUE]
               /\ events[id].first_approved_by_id # None
         /\ (/\ ApproveCalled(id)
             /\ events[id].status = "pending"
             /\ events'[id].status = "approved")
            => /\ events'[id].first_approved_by_id # None
               /\ events'[id].second_approved_by_id # None]_vars

C2_Witness ==
    \E id \in EventIds :
        /\ request_found(events[id])
        /\ last = Call("approve", OwnerOf(id).second_approver_id, id, "ok")
        /\ TwoStepMode(id)
        /\ events[id].status = "approved"
        /\ events[id].first_approved_by_id = OwnerOf(id).first_approver_id
        /\ events[id].second_approved_by_id = OwnerOf(id).second_approver_id
        /\ events[id].approved_at = TRUE

(***************************************************************************)
(* C3.  As claimed: every approve or reject call on a leave request whose  *)
(* status is not pending fails with NotPending, whoever the actor is, and  *)
(* changes nothing.                                                        *)
(***************************************************************************)
C3_NotPendingForEveryActor ==
    [][\A id \in EventIds :
         (/\ ApproveCalled(id) \/ RejectCalled(id)
          /\ request_found(events[id])
          /\ events[id].status # "pending")
         => (last'.result = "NotPending" /\ events' = events)]_vars

(***************************************************************************)
(* C3, amended.  The status of a stored leave request only ever moves      *)
(* pending->approved or pending->rejected.  An approve or reject call on   *)
(* a request that is not pending changes nothing: it fails with NotPending *)
(* before any check of the request's approvers when the actor holds a      *)
(* reviewer role (supervisor, admin, ceo), and is refused by the route's   *)
(* role gate (NotAuthorized) otherwise.                                    *)
(***************************************************************************)
C3_TerminalStatus ==
    [][\A id \in EventIds :
         /\ (/\ events[id].exists = "yes"
             /\ events'[id].exists = "yes"
             /\ events'[id].status # events[id].status)
            => /\ events[id].status = "pending"
               /\ events'[id].status \in {"approved", "rejected"}
         /\ (/\ ApproveCalled(id) \/ RejectCalled(id)
             /\ request_found(events[id])
             /\ events[id].status # "pending")
            => /\ events' = events
               /\ last'.result = IF require_leave_approver(users, last'.actor)
                                   THEN "NotPending" ELSE "NotAuthorized"]_vars

C3_Witness ==
    \E id \in EventIds :
        /\ request_found(events[id])
        /\ events[id].status = "rejected"
        /\ TwoStepMode(id)
        /\ events[id].approved_by_id = OwnerOf(id).first_approver_id
        /\ last.id = id
        /\ last.op \in {"approve", "reject"}
        /\ last.actor = OwnerOf(id).second_approver_id
        /\ last.result = "NotPending"

(***************************************************************************)
(* C4.  Under approve, reject, edit and profile-update steps a recorded    *)
(* first_approved_by_id (and a recorded second_approved_by_id) keeps its   *)
(* value.  A two-step approve by the reviewer whose slot is already        *)
(* recorded fails with AlreadyRecorded and changes nothing.  A single-step *)
(* approve fills only the slots that were empty.                           *)
(***************************************************************************)
C4_SlotsSetOnce ==
    [][\A id \in EventIds :
         /\ (/\ last'.op \in {"approve", "reject", "update_event",
                              "admin_update_user_profile"}
             /\ events[id].exists = "yes")
            => /\ events[id].first_approved_by_id # None
                  => events'[id].first_approved_by_id = events[id].first_approved_by_id
               /\ events[id].second_approved_by_id # None
                  => events'[id].second_approved_by_id = events[id].second_approved_by_id
         /\ (/\ ApproveCalled(id)
             /\ IsPendingRequest(id)
             /\ ValidTwoStepSetup(id)
             /\ \/ /\ last'.actor = OwnerOf(id).first_approver_id
                   /\ events[id].first_approved_by_id # None
                \/ /\ last'.actor = OwnerOf(id).second_approver_id
                   /\ events[id].second_approved_by_id # None)
            => (last'.result = "AlreadyRecorded" /\ events' = events)
         /\ (/\ ApproveCalled(id)
             /\ last'.result = "ok"
             /\ ~TwoStepMode(id))
            => /\ events'[id].first_approved_by_id =
                     IF events[id].first_approved_by_id = None
                       THEN last'.actor ELSE events[id].first_approved_by_id
               /\ events'[id].second_approved_by_id =
                     IF events[id].second_approved_by_id = None
                       THEN last'.actor ELSE events[id].second_approved_by_id]_vars

C4_Witness ==
    \E id \in EventIds :
        /\ request_found(events[id])
        /\ last = Call("approve", events[id].second_approved_by_id, id, "ok")
        /\ ~TwoStepMode(id)
        /\ events[id].status = "approved"
        /\ events[id].first_approved_by_id # None
        /\ events[id].first_approved_by_id # events[id].second_approved_by_id

C4_WitnessAlreadyRecorded ==
    \E id \in EventIds :
        /\ IsPendingRequest(id)
        /\ ValidTwoStepSetup(id)
        /\ events[id].first_approved_by_id = OwnerOf(id).first_approver_id
        /\ last = Call("approve", OwnerOf(id).first_approver_id, id, "AlreadyRecorded")

(***************************************************************************)
(* C8.  Whenever an approve call fails, the stored events are exactly as   *)
(* before the call.  When a two-step approve by the assigned reviewer      *)
(* passes setup, authorization, ordering and recording checks and the      *)
(* duration validator then fails, the call fails with InvalidDuration, the *)
(* status stays pending and the reviewer's slot is not recorded.           *)
(***************************************************************************)
C8_ApproveAllOrNothing ==
    [][\A id \in EventIds :
         /\ (ApproveCalled(id) /\ last'.result # "ok") => events' = events
         /\ (/\ ApproveCalled(id)
             /\ IsPendingRequest(id)
             /\ ValidTwoStepSetup(id)
             /\ approve_two_step_checks(users, events[id], OwnerOf(id), last'.actor).result = "ok"
             /\ ~validate_leave_request(events[id].start_ts, events[id].end_ts))
            => /\ last'.result = "InvalidDuration"
               /\ events'[id].status = "pending"
               /\ events'[id].first_approved_by_id = events[id].first_approved_by_id
               /\ events'[id].second_approved_by_id = events[id].second_approved_by_id]_vars

C8_Witness ==
    \E id \in EventIds :
        /\ IsPendingRequest(id)
        /\ ValidTwoStepSetup(id)
        /\ last = Call("approve", OwnerOf(id).first_approver_id, id, "InvalidDuration")
        /\ events[id].first_approved_by_id = None
        /\ events[id].end_ts <= events[id].start_ts

(***************************************************************************)
(* C10.  In two-step mode a reject call by the assigned first approver     *)
(* (a supervisor) or the assigned second approver (an admin/ceo) on a      *)
(* pending request succeeds and sets the status to rejected at once,       *)
(* whether or not the first approval is recorded; the approval slots are   *)
(* left as they were.                                                      *)
(***************************************************************************)
C10_RejectShortCircuits ==
    [][\A id \in EventIds :
         (/\ RejectCalled(id)
          /\ IsPendingRequest(id)
          /\ ValidTwoStepSetup(id)
          /\ last'.actor \in {OwnerOf(id).first_approver_id, OwnerOf(id).second_approver_id})
         => /\ last'.result = "ok"
            /\ events'[id].status = "rejected"
            /\ events'[id].approved_by_id = last'.actor
            /\ events'[id].first_approved_by_id = events[id].first_approved_by_id
            /\ events'[id].second_approved_by_id = events[id].second_approved_by_id]_vars

C10_Witness ==
    \E id \in EventIds :
        /\ request_found(events[id])
        /\ ValidTwoStepSetup(id)
        /\ last = Call("reject", OwnerOf(id).second_approver_id, id, "ok")
        /\ events[id].status = "rejected"
        /\ events[id].first_approved_by_id = None
        /\ events[id].second_approved_by_id = None

C10_WitnessAfterFirstApproval ==
    \E id \in EventIds :
        /\ request_found(events[id])
        /\ ValidTwoStepSetup(id)
        /\ last = Call("reject", OwnerOf(id).first_approver_id, id, "ok")
        /\ events[id].status = "rejected"
        /\ events[id].first_approved_by_id = OwnerOf(id).first_approver_id

(***************************************************************************)
(* C5.  As claimed: approve and reject succeed only for a legitimate       *)
(* reviewer under the mode resolved at decision time, and every other      *)
(* actor's call on a pending request (two-step setups being valid) fails   *)
(* with NotAuthorized and leaves the request unchanged.                    *)
(***************************************************************************)
LegitimateReviewer(id, a) ==
    LET owner == OwnerOf(id)
        designated == designated_approvers(users, owner)
    IN  IF owner.require_two_step_leave_approval
          THEN \/ (a = owner.first_approver_id /\ users[a].role = "supervisor")
               \/ (a = owner.second_approver_id /\ users[a].role \in {"admin", "ceo"})
        ELSE IF designated # {}
          THEN a \in designated
        ELSE users[a].role \in {"admin", "ceo"}

C5_OnlyLegitimateReviewers ==
    [][\A id \in EventIds :
         (/\ ApproveCalled(id) \/ RejectCalled(id)
          /\ IsPendingRequest(id)
          /\ TwoStepMode(id) => ValidTwoStepSetup(id))
         => /\ last'.result = "ok" => LegitimateReviewer(id, last'.actor)
            /\ ~LegitimateReviewer(id, last'.actor)
               => (last'.result = "NotAuthorized" /\ events' = events)]_vars

(***************************************************************************)
(* C6.  As claimed: in two-step mode with a missing approver reference or  *)
(* an approver of the wrong current role, an approve or reject call by an  *)
(* actor holding a reviewer role fails with InvalidApprovalSetup and the   *)
(* request stays pending and unchanged.                                    *)
(***************************************************************************)
C6_InvalidSetupBlocksEveryTransition ==
    [][\A id \in EventIds :
         (/\ ApproveCalled(id) \/ RejectCalled(id)
          /\ IsPendingRequest(id)
          /\ TwoStepMode(id)
          /\ ~ValidTwoStepSetup(id)
          /\ require_leave_approver(users, last'.actor))
         => /\ last'.result = "InvalidApprovalSetup"
            /\ events' = events]_vars

(***************************************************************************)
(* C7.  As claimed: for every stored request and every acting user,        *)
(* can_approve is true exactly when an approve call by that user would     *)
(* pass the status, setup, authorization, ordering and already-recorded    *)
(* checks (the call succeeds once the duration is valid), and can_reject   *)
(* is true exactly when a reject call by that user would succeed.          *)
(***************************************************************************)
ApprovePassesChecks(id, a) ==
    approve_leave_request(users, [events[id] EXCEPT !.end_ts = events[id].start_ts + 1],
                          a).result = "ok"

RejectSucceeds(id, a) ==
    \A reason \in Reasons :
        reject_leave_request(users, events[id], a, reason).result = "ok"

C7_PermissionsMirrorMutatingPaths ==
    \A id \in EventIds : \A current \in UserIds :
        events[id].exists = "yes"
        => _compute_leave_review_permissions(users, current, events[id], OwnerOf(id))
             = <<ApprovePassesChecks(id, current), RejectSucceeds(id, current)>>

(***************************************************************************)
(* C9.  As claimed: when two approve / reject calls on the same pending    *)
(* request have both finished, the stored request and the two results are  *)
(* those of running the two calls one after the other in some order, on    *)
(* the row as it was when the first call read it.                          *)
(***************************************************************************)
FirstReader == CHOOSE w \in Workers : txn[w].first

SerialOutcome(w1, w2) ==
    LET r1 == CallOn(w1, txn[FirstReader].snap)
        r2 == CallOn(w2, r1.e)
    IN  /\ txn[w1].result = r1.result
        /\ txn[w2].result = r2.result
        /\ events[txn[w1].id] = r2.e

C9_ConcurrentCallsSerializable ==
    (\A w \in Workers : txn[w].pc = "done")
    => \E w1 \in Workers : \E w2 \in Workers \ {w1} : SerialOutcome(w1, w2)

(***************************************************************************)
(* C11.  In single-step mode a successful approve is terminal: the request *)
(* becomes approved with approved_by_id the acting reviewer and            *)
(* approved_at set, each approval slot that was empty holds the acting     *)
(* reviewer's id and a slot already recorded keeps its value, so both      *)
(* slots are set after the call.  With no two-step flag and no designated  *)
(* approver, the approve of any admin/ceo on a pending request of valid    *)
(* duration succeeds in this way.                                          *)
(***************************************************************************)
C11_SingleStepApproveTerminal ==
    [][\A id \in EventIds :
         /\ (/\ ApproveCalled(id)
             /\ last'.result = "ok"
             /\ ~TwoStepMode(id))
            => /\ events'[id] =
                     [events[id] EXCEPT
                        !.status = "approved",
                        !.approved_by_id = last'.actor,
                        !.approved_at = TRUE,
                        !.rejection_reason = "none",
                        !.first_approved_by_id = IF @ = None THEN last'.actor ELSE @,
                        !.second_approved_by_id = IF @ = None THEN last'.actor ELSE @]
               /\ events'[id].first_approved_by_id # None
               /\ events'[id].second_approved_by_id # None
         /\ (/\ ApproveCalled(id)
             /\ IsPendingRequest(id)
             /\ ~TwoStepMode(id)
             /\ designated_approvers(users, OwnerOf(id)) = {}
             /\ users[last'.actor].role \in {"admin", "ceo"}
             /\ events[id].end_ts > events[id].start_ts)
            => /\ last'.result = "ok"
               /\ events'[id].status = "approved"
               /\ events'[id].approved_by_id = last'.actor]_vars

C11_Witness ==
    \E id \in EventIds :
        /\ request_found(events[id])
        /\ ~TwoStepMode(id)
        /\ designated_approvers(users, OwnerOf(id)) = {}
        /\ last.op = "approve" /\ last.id = id /\ last.result = "ok"
        /\ users[last.actor].role \in {"admin", "ceo"}
        /\ events[id].status = "approved"
        /\ events[id].approved_at = TRUE
        /\ events[id].approved_by_id = last.actor
        /\ events[id].first_approved_by_id = last.actor
        /\ events[id].second_approved_by_id = last.actor

C11_WitnessKeepsRecordedSlot ==
    \E id \in EventIds :
        /\ request_found(events[id])
        /\ ~TwoStepMode(id)
        /\ last.op = "approve" /\ last.id = id /\ last.result = "ok"
        /\ events[id].status = "approved"
        /\ events[id].first_approved_by_id \notin {None, last.actor}
        /\ events[id].second_approved_by_id = last.actor

(***************************************************************************)
(* C12.  As claimed: once a stored leave request is approved or rejected   *)
(* it is neither removed nor edited: no step changes its start_ts, end_ts  *)
(* or type.                                                                *)
(***************************************************************************)
C12_DecidedRequestIsFrozen ==
    [][\A id \in EventIds :
         (/\ request_found(events[id])
          /\ events[id].status \in {"approved", "rejected"})
         => /\ events'[id].exists = "yes"
            /\ events'[id].start_ts = events[id].start_ts
            /\ events'[id].end_ts = events[id].end_ts
            /\ events'[id].type = events[id].type]_vars

(***************************************************************************)
(* C13.  As claimed: in every state reached through admin profile updates, *)
(* every user with require_two_step_leave_approval has both approver       *)
(* references set, distinct, the first referring to a user who is          *)
(* currently a supervisor and the second to a user who is currently an     *)
(* admin or ceo.                                                           *)
(***************************************************************************)
C13_TwoStepSetupAlwaysValid ==
    \A i \in UserIds :
        users[i].require_two_step_leave_approval
        => /\ users[i].first_approver_id # None
           /\ users[i].second_approver_id # None
           /\ users[i].first_approver_id # users[i].second_approver_id
           /\ _is_supervisor_user(users, users[i].first_approver_id)
           /\ _is_admin_user(users, users[i].second_approver_id)

(***************************************************************************)
(* The balances of the employee under the properties: the profile of the   *)
(* employee (hired 2020-12-25, with or without an opening balance as of    *)
(* day 4) and the as_of date, before and after the anniversary.            *)
(***************************************************************************)
PlainProfile == Profile(_make_date(2020, 12, 25), _make_date(2020, 12, 1), NoDate, 0, 0)

OpeningProfile == Profile(_make_date(2020, 12, 25), _make_date(2020, 12, 1), DateOf(4), 350, 100)

BalanceViews ==
    {<<PlainProfile, DateOf(0)>>, <<PlainProfile, DateOf(7)>>, <<OpeningProfile, DateOf(7)>>}

Balance(evts, view) == compute_leave_balance(evts, 1, view[1], view[2])

ChargeableInWindow(e, b) ==
    100 * _event_leave_days_within_window(DateOf(e.start_ts), DateOf(e.end_ts),
                                          b.usage_window_start, b.period_end)

ApprovedRequests(evts, types) ==
    {i \in DOMAIN evts : /\ evts[i].exists = "yes" /\ evts[i].user_id = 1
                         /\ evts[i].status = "approved" /\ evts[i].type \in types}

(***************************************************************************)
(* C14.  As claimed: in every state the used figure of the balance is the  *)
(* opening used figure plus the chargeable days, inside the usage window,  *)
(* of every approved request of the employee of type Leave or Hospital.    *)
(***************************************************************************)
C14_UsedCountsLeaveAndHospital ==
    \A view \in BalanceViews :
        LET b == Balance(events, view)
        IN  b.used = view[1].leave_opening_used
                       + SumUsed(events, ApprovedRequests(events, {"Leave", "Hospital"}),
                                 b.usage_window_start, b.period_end)

(***************************************************************************)
(* C15.  For a fixed employee and as_of the balance changes only with the  *)
(* approved requests: a step that creates a request, records a first-step  *)
(* approval or rejects a request leaves every figure unchanged.  The step  *)
(* that moves a Leave request to approved raises used by the request's     *)
(* chargeable days inside [usage_window_start, period_end) and lowers      *)
(* remaining by the same amount; remaining is accrued minus used, with no  *)
(* floor at zero.                                                          *)
(***************************************************************************)
C15_BalanceFollowsApprovedRequests ==
    [][\A view \in BalanceViews :
         LET before == Balance(events, view)
             after == Balance(events', view)
         IN  /\ after.remaining = after.accrued - after.used
             /\ (\/ last'.op \in {"create_leave_request", "create_event", "reject"}
                 \/ /\ last'.op = "approve"
                    /\ \A id \in DOMAIN events : events'[id].status = events[id].status)
                => after = before
             /\ \A id \in DOMAIN events :
                  (/\ ApproveCalled(id)
                   /\ events[id].type = "Leave"
                   /\ events[id].status = "pending"
                   /\ events'[id].status = "approved")
                  => /\ after.used = before.used + ChargeableInWindow(events[id], before)
                     /\ after.remaining = before.remaining - ChargeableInWindow(events[id], before)
                     /\ after.accrued = before.accrued]_vars

C15_Witness ==
    /\ last = Call("approve", 3, 1, "ok")
    /\ events[1].type = "Leave"
    /\ events[1].status = "approved"
    /\ ChargeableInWindow(events[1], Balance(events, <<PlainProfile, DateOf(7)>>)) = 100
    /\ Balance(events, <<PlainProfile, DateOf(7)>>).used = 300
    /\ Balance(events, <<PlainProfile, DateOf(7)>>).remaining = 0 - 300

C15_WitnessPartialApproval ==
    /\ last = Call("approve", 2, 1, "ok")
    /\ events[1].status = "pending"
    /\ events[1].first_approved_by_id = 2
    /\ Balance(events, <<OpeningProfile, DateOf(7)>>).used = 300

(***************************************************************************)
(* C16.  As claimed: a successful create_leave_request or create_event of  *)
(* a request of type Leave or Hospital stores a request whose end date is  *)
(* after its start date (a request with end <= start fails with            *)
(* InvalidDuration and nothing is stored).                                 *)
(***************************************************************************)
C16_CreateRequiresPositiveDuration ==
    [][(/\ last'.op \in {"create_leave_request", "create_event"}
        /\ last'.result = "ok"
        /\ events'[last'.id].type \in {"Leave", "Hospital"})
       => events'[last'.id].end_ts > events'[last'.id].start_ts]_vars

(***************************************************************************)
(* C17.  For a fixed accrual anchor and a later as_of, months_accrued does *)
(* not decrease and neither does the accrual months_accrued x 1.75; the    *)
(* accrual of the cycle is capped at 21.00 before the opening balance is   *)
(* added, so accrued never exceeds opening_accrued + 21.00 (amounts in     *)
(* hundredths of a day).                                                   *)
(***************************************************************************)
C17_AccrualMonotoneAndCapped ==
    [][(probe'.op = "accrue" /\ probe'.pc = "done")
       => /\ probe'.months_accrued >= 0
          /\ probe'.accrued =
                probe'.opening_accrued
                  + (IF probe'.months_accrued * 175 > 2100
                       THEN 2100 ELSE probe'.months_accrued * 175)
          /\ probe'.accrued <= probe'.opening_accrued + 2100
          /\ (/\ probe.op = "accrue" /\ probe.pc = "done"
              /\ probe.accrual_anchor = probe'.accrual_anchor
              /\ DateLe(probe.as_of, probe'.as_of))
             => /\ probe'.months_accrued >= probe.months_accrued
                /\ probe'.months_accrued * 175 >= probe.months_accrued * 175
                /\ probe'.accrued >= probe.accrued]_vars

C17_Witness ==
    /\ probe.op = "accrue" /\ probe.pc = "done"
    /\ probe.accrual_anchor = _make_date(2024, 1, 31)
    /\ probe.as_of = _make_date(2025, 3, 31)
    /\ probe.months_accrued = 14
    /\ probe.opening_accrued = 525
    /\ probe.accrued = 2625

C17_WitnessShortMonth ==
    /\ probe.op = "accrue" /\ probe.pc = "done"
    /\ probe.accrual_anchor = _make_date(2024, 1, 31)
    /\ probe.as_of = _make_date(2024, 3, 30)
    /\ probe.months_accrued = 1
    /\ probe.accrued = probe.opening_accrued + 175

(***************************************************************************)
(* C18.  The period of (hire_date, as_of) starts at the most recent        *)
(* anniversary of hire_date on or before as_of: the hire month and day in  *)
(* that year, a Feb-29 hire date falling on Feb-28 in a non-leap year.     *)
(* The period ends on the same month and day one year later, with the same *)
(* clamp.  For hire_date 2020-02-29 and as_of 2025-03-01 the period is     *)
(* 2025-02-28 to 2026-02-28.                                               *)
(***************************************************************************)
AnniversaryIn(hire_date, y) ==
    IF hire_date.month = 2 /\ hire_date.day = 29 /\ ~IsLeap(y)
      THEN [year |-> y, month |-> 2, day |-> 28]
    ELSE [year |-> y, month |-> hire_date.month, day |-> hire_date.day]

C18_PeriodIsLatestAnniversary ==
    (probe.op = "resolve" /\ probe.pc = "done")
    => /\ probe.period_start = AnniversaryIn(probe.hire_date, probe.period_start.year)
       /\ DateLe(probe.period_start, probe.as_of)
       /\ DateLt(probe.as_of, AnniversaryIn(probe.hire_date, probe.period_start.year + 1))
       /\ probe.period_end.year = probe.period_start.year + 1
       /\ probe.period_end.month = probe.period_start.month
       /\ probe.period_end.day =
             IF probe.period_start.month = 2 /\ probe.period_start.day = 29
               THEN 28 ELSE probe.period_start.day
       /\ (/\ probe.hire_date = [year |-> 2020, month |-> 2, day |-> 29]
           /\ probe.as_of = [year |-> 2025, month |-> 3, day |-> 1])
          => /\ probe.period_start = [year |-> 2025, month |-> 2, day |-> 28]
             /\ probe.period_end = [year |-> 2026, month |-> 2, day |-> 28]

C18_Witness ==
    /\ probe.op = "resolve" /\ probe.pc = "done"
    /\ probe.hire_date = [year |-> 2020, month |-> 2, day |-> 29]
    /\ probe.as_of = [year |-> 2025, month |-> 3, day |-> 1]
    /\ probe.period_start = [year |-> 2025, month |-> 2, day |-> 28]
    /\ probe.period_end = [year |-> 2026, month |-> 2, day |-> 28]

C18_WitnessLeapYear ==
    /\ probe.op = "resolve" /\ probe.pc = "done"
    /\ probe.hire_date = [year |-> 2020, month |-> 2, day |-> 29]
    /\ probe.as_of = [year |-> 2024, month |-> 2, day |-> 29]
    /\ probe.period_start = [year |-> 2024, month |-> 2, day |-> 29]
    /\ probe.period_end = [year |-> 2025, month |-> 2, day |-> 28]

(***************************************************************************)
(* C19.  is_chargeable is false for every Sunday and for every date in the *)
(* holiday set of the date's own year, and true for every other date,      *)
(* Saturdays included.  The days counted for a span are the dates of the   *)
(* span inside the window that are neither a Sunday nor in the holiday set *)
(* of their own year, also when the span crosses a year boundary.          *)
(***************************************************************************)
HolidayCalendar(year) == _kenya_public_holidays(year)

IsSunday(d) == weekday(d) = 6

IsSaturday(d) == weekday(d) = 5

C19_ChargeableDays ==
    /\ (probe.op = "chargeable" /\ probe.pc = "done")
       => /\ IsSunday(probe.day_value) => probe.result = FALSE
          /\ probe.day_value \in HolidayCalendar(probe.day_value.year)
             => probe.result = FALSE
          /\ (/\ ~IsSunday(probe.day_value)
              /\ probe.day_value \notin HolidayCalendar(probe.day_value.year))
             => probe.result = TRUE
    /\ (probe.op = "count" /\ probe.pc = "done")
       => probe.whole =
            Cardinality({d \in WindowDates :
                           /\ DateLe(probe.e_start, d) /\ DateLt(d, probe.e_end)
                           /\ DateLe(probe.a, d) /\ DateLt(d, probe.c)
                           /\ ~IsSunday(d)
                           /\ d \notin HolidayCalendar(d.year)})

C19_Witness ==
    /\ probe.op = "chargeable" /\ probe.pc = "done"
    /\ IsSaturday(probe.day_value)
    /\ probe.day_value \notin HolidayCalendar(probe.day_value.year)
    /\ probe.result = TRUE

C19_WitnessHoliday ==
    /\ probe.op = "chargeable" /\ probe.pc = "done"
    /\ probe.day_value = [year |-> 2026, month |-> 4, day |-> 3]
    /\ ~IsSunday(probe.day_value)
    /\ probe.result = FALSE

C19_WitnessYearBoundary ==
    /\ probe.op = "count" /\ probe.pc = "done"
    /\ probe.e_start = [year |-> 2025, month |-> 12, day |-> 30]
    /\ probe.e_end = [year |-> 2026, month |-> 1, day |-> 3]
    /\ probe.a = WindowBase
    /\ probe.c = [year |-> 2026, month |-> 1, day |-> 3]
    /\ probe.whole = 3

(***************************************************************************)
(* C20.  For a request span and window dates a <= b <= c, the days counted *)
(* in [a, b) plus the days counted in [b, c) are the days counted in       *)
(* [a, c).  A span entirely outside the window counts zero, and a span     *)
(* that covers the window counts the chargeable days of the window.        *)
(***************************************************************************)
C20_CountAdditiveOverPartition ==
    (probe.op = "count" /\ probe.pc = "done")
    => /\ probe.left + probe.right = probe.whole
       /\ (DateLe(probe.e_end, probe.a) \/ DateLe(probe.c, probe.e_start))
          => probe.whole = 0
       /\ (DateLe(probe.e_start, probe.a) /\ DateLe(probe.c, probe.e_end))
          => probe.whole = _event_leave_days_within_window(probe.a, probe.c,
                                                           probe.a, probe.c)

C20_Witness ==
    /\ probe.op = "count" /\ probe.pc = "done"
    /\ DateLt(probe.e_start, probe.a)
    /\ DateLt(probe.a, probe.b)
    /\ DateLt(probe.b, probe.c)
    /\ DateLt(probe.c, probe.e_end)
    /\ probe.left > 0
    /\ probe.right > 0
    /\ probe.whole = probe.left + probe.right

C20_WitnessOutside ==
    /\ probe.op = "count" /\ probe.pc = "done"
    /\ DateLt(probe.e_start, probe.e_end)
    /\ DateLe(probe.e_end, probe.a)
    /\ DateLt(probe.a, probe.c)
    /\ probe.whole = 0

(***************************************************************************)
(* C21.  For every year Y the holiday set is exactly B together with the   *)
(* day after every date of B that is a Sunday, where B is the eight fixed  *)
(* dates of Y, Good Friday and Easter Monday of Y, and the two lunar dates *)
(* of Y when Y is in 2025..2030 (none for another year).  A repeated call  *)
(* for the same Y returns the same set.                                    *)
(***************************************************************************)
FixedHolidays(Y) ==
    {[year |-> Y, month |-> md[1], day |-> md[2]] :
        md \in {<<1, 1>>, <<5, 1>>, <<6, 1>>, <<10, 10>>, <<10, 20>>, <<12, 12>>,
                <<12, 25>>, <<12, 26>>}}

GoodFriday(Y) == _add_days(_easter_sunday(Y), 0 - 2)

EasterMonday(Y) == _add_days(_easter_sunday(Y), 1)

LunarHolidays(Y) == _kenya_islamic_holidays(Y)

BaseHolidays(Y) == FixedHolidays(Y) \cup {GoodFriday(Y), EasterMonday(Y)} \cup LunarHolidays(Y)

C21_HolidaySetExact ==
    (probe.op = "holidays" /\ probe.pc \in {"done", "again"})
    => /\ probe.result =
             BaseHolidays(probe.year)
               \cup {NextDay(h) : h \in {x \in BaseHolidays(probe.year) : IsSunday(x)}}
       /\ Cardinality(FixedHolidays(probe.year)) = 8
       /\ Cardinality(LunarHolidays(probe.year)) =
             IF probe.year \in 2025..2030 THEN 2 ELSE 0
       /\ \A h \in LunarHolidays(probe.year) : h.year = probe.year
       /\ weekday(GoodFriday(probe.year)) = 4
       /\ weekday(EasterMonday(probe.year)) = 0
       /\ probe.pc = "again" => probe.again = probe.result

C21_Witness ==
    /\ probe.op = "holidays" /\ probe.pc = "again"
    /\ probe.year = 2025
    /\ IsSunday([year |-> 2025, month |-> 6, day |-> 1])
    /\ [year |-> 2025, month |-> 6, day |-> 2] \in probe.result
    /\ [year |-> 2025, month |-> 3, day |-> 31] \in probe.result
    /\ Cardinality(probe.result) = 13

C21_WitnessNoLunarDates ==
    /\ probe.op = "holidays" /\ probe.pc = "done"
    /\ probe.year = 2031
    /\ Cardinality(probe.result) = 11

(***************************************************************************)
(* C22.  For every year of the range checked, the Easter computation       *)
(* returns a valid date that is a Sunday between 22 March and 25 April; it *)
(* returns the known Easter Sundays of the years listed below, 2025-04-20  *)
(* among them, and Good Friday 2025-04-18 and Easter Monday 2025-04-21 are *)
(* in the holiday set of 2025.                                             *)
(***************************************************************************)
KnownEasterSundays ==
    {[year |-> 1943, month |-> 4, day |-> 25], [year |-> 2000, month |-> 4, day |-> 23],
     [year |-> 2008, month |-> 3, day |-> 23], [year |-> 2011, month |-> 4, day |-> 24],
     [year |-> 2019, month |-> 4, day |-> 21], [year |-> 2024, month |-> 3, day |-> 31],
     [year |-> 2025, month |-> 4, day |-> 20], [year |-> 2026, month |-> 4, day |-> 5],
     [year |-> 2027, month |-> 3, day |-> 28], [year |-> 2038, month |-> 4, day |-> 25]}

C22_EasterIsCanonical ==
    (probe.op = "easter" /\ probe.pc = "done")
    => /\ probe.result.year = probe.year
       /\ ValidDate(probe.result.year, probe.result.month, probe.result.day)
       /\ IsSunday(probe.result)
       /\ DateLe([year |-> probe.year, month |-> 3, day |-> 22], probe.result)
       /\ DateLe(probe.result, [year |-> probe.year, month |-> 4, day |-> 25])
       /\ \A known \in KnownEasterSundays :
             known.year = probe.year => probe.result = known
       /\ probe.year = 2025
          => /\ probe.result = [year |-> 2025, month |-> 4, day |-> 20]
             /\ [year |-> 2025, month |-> 4, day |-> 18] \in _kenya_public_holidays(2025)
             /\ [year |-> 2025, month |-> 4, day |-> 21] \in _kenya_public_holidays(2025)

C22_Witness ==
    /\ probe.op = "easter" /\ probe.pc = "done"
    /\ probe.year = 2025
    /\ probe.result = [year |-> 2025, month |-> 4, day |-> 20]

C22_WitnessLatestEaster ==
    /\ probe.op = "easter" /\ probe.pc = "done"
    /\ probe.year = 2038
    /\ probe.result = [year |-> 2038, month |-> 4, day |-> 25]

(***************************************************************************)
(* C25.  For every hire date, 29 February included, and every as_of on or  *)
(* after it, the resolved entitlement period contains as_of:               *)
(* period_start <= as_of < period_end.                                     *)
(***************************************************************************)
C25_AsOfInsidePeriod ==
    (/\ probe.op = "resolve" /\ probe.pc = "done"
     /\ DateLe(probe.hire_date, probe.as_of))
    => /\ DateLe(probe.period_start, probe.as_of)
       /\ DateLt(probe.as_of, probe.period_end)

C25_WitnessGapDay ==
    /\ probe.op = "resolve" /\ probe.pc = "done"
    /\ probe.hire_date = [year |-> 2020, month |-> 2, day |-> 29]
    /\ probe.as_of = [year |-> 2024, month |-> 2, day |-> 28]
    /\ probe.period_start = [year |-> 2023, month |-> 2, day |-> 28]
    /\ probe.period_end = probe.as_of

(***************************************************************************)
(* C23.  When the employee's opening_as_of lies in [period_start, as_of],  *)
(* months_accrued is counted from opening_as_of (and so never exceeds the  *)
(* count from period_start); when opening_as_of is absent, before          *)
(* period_start or after as_of, months are counted from period_start.  In  *)
(* both cases accrued = opening_accrued + min(21.0, months_accrued x 1.75).*)
(***************************************************************************)
OpeningInAccrualRange(user, b) ==
    /\ user.leave_opening_as_of # NoDate
    /\ DateLe(b.period_start, user.leave_opening_as_of)
    /\ DateLe(user.leave_opening_as_of, b.as_of)

MinOf(x, y) == IF x <= y THEN x ELSE y

C23_AccrualCountedFromBaseline ==
    (probe.op = "balance" /\ probe.pc = "done")
    => LET b == probe.result
           user == probe.user
           from_period_start == _full_months_between(b.period_start, b.as_of)
       IN  /\ OpeningInAccrualRange(user, b)
              => /\ b.months_accrued = _full_months_between(user.leave_opening_as_of, b.as_of)
                 /\ b.months_accrued <= from_period_start
           /\ ~OpeningInAccrualRange(user, b) => b.months_accrued = from_period_start
           /\ b.accrued = user.leave_opening_accrued + MinOf(2100, b.months_accrued * 175)

C23_Witness ==
    /\ probe.op = "balance" /\ probe.pc = "done"
    /\ probe.user.hire_date = [year |-> 2022, month |-> 6, day |-> 15]
    /\ probe.user.leave_opening_as_of = [year |-> 2025, month |-> 8, day |-> 31]
    /\ probe.user.leave_opening_accrued = 525
    /\ probe.as_of = [year |-> 2025, month |-> 12, day |-> 31]
    /\ probe.result.period_start = [year |-> 2025, month |-> 6, day |-> 15]
    /\ probe.result.months_accrued = 4
    /\ _full_months_between(probe.result.period_start, probe.as_of) = 6
    /\ probe.result.accrued = 525 + 700

C23_WitnessBaselineAfterAsOf ==
    /\ probe.op = "balance" /\ probe.pc = "done"
    /\ probe.user.hire_date = [year |-> 2022, month |-> 6, day |-> 15]
    /\ probe.user.leave_opening_as_of = [year |-> 2025, month |-> 8, day |-> 31]
    /\ probe.as_of = [year |-> 2025, month |-> 8, day |-> 15]
    /\ probe.result.months_accrued = 2

C23_WitnessBaselineBeforePeriod ==
    /\ probe.op = "balance" /\ probe.pc = "done"
    /\ probe.user.hire_date = [year |-> 2022, month |-> 6, day |-> 15]
    /\ probe.user.leave_opening_as_of = [year |-> 2025, month |-> 3, day |-> 1]
    /\ probe.as_of = [year |-> 2025, month |-> 8, day |-> 15]
    /\ probe.result.months_accrued = 2

(***************************************************************************)
(* C24.  When opening_as_of lies in [period_start, period_end), approved   *)
(* leave days dated before opening_as_of are not counted in used: used is  *)
(* opening_used plus the chargeable days of the approved Leave requests    *)
(* inside [opening_as_of, period_end), and an approved request that ends   *)
(* on or before opening_as_of contributes zero.                            *)
(***************************************************************************)
BaselineProfile == Profile(_make_date(2020, 12, 20), _make_date(2020, 12, 1), DateOf(4), 350, 100)

NoBaselineProfile == Profile(_make_date(2020, 12, 20), _make_date(2020, 12, 1), NoDate, 0, 0)

OpeningViews ==
    {<<BaselineProfile, DateOf(7)>>, <<BaselineProfile, DateOf(0)>>, <<OpeningProfile, DateOf(7)>>}

ChargeableDatesFrom(e, from, to) ==
    {n \in e.start_ts..(e.end_ts - 1) :
        /\ DateLe(from, DateOf(n)) /\ DateLt(DateOf(n), to)
        /\ ~IsSunday(DateOf(n))
        /\ DateOf(n) \notin HolidayCalendar(DateOf(n).year)}

RECURSIVE SumChargeableFrom(_, _, _, _)
SumChargeableFrom(evts, ids, from, to) ==
    IF ids = {} THEN 0
    ELSE LET id == CHOOSE i \in ids : TRUE
         IN  100 * Cardinality(ChargeableDatesFrom(evts[id], from, to))
               + SumChargeableFrom(evts, ids \ {id}, from, to)

C24_WitnessEndsBeforeBaseline ==
    /\ last = Call("approve", 3, 1, "ok")
    /\ events[1].type = "Leave" /\ events[1].status = "approved"
    /\ events[1].start_ts = 1 /\ events[1].end_ts = 3
    /\ Cardinality(ChargeableDatesFrom(events[1], DateOf(1), DateOf(3))) = 1
    /\ Balance(events, <<BaselineProfile, DateOf(7)>>).used = 100 + 200
    /\ Balance(events, <<NoBaselineProfile, DateOf(7)>>).used = 100 + 200

(***************************************************************************)
(* C27.  In every reachable state of a leave request, a recorded second    *)
(* approval slot implies a recorded first approval slot, whatever the      *)
(* interleaving of two-step approvals, single-step approvals and changes   *)
(* of the owner's approval mode between the calls.                         *)
(***************************************************************************)
C27_SecondSlotImpliesFirstSlot ==
    \A id \in EventIds :
        events[id].second_approved_by_id # None => events[id].first_approved_by_id # None

C27_Witness ==
    \E id \in EventIds :
        /\ last = Call("approve", 3, id, "ok")
        /\ ~TwoStepMode(id)
        /\ events[id].status = "approved"
        /\ events[id].first_approved_by_id = 2
        /\ events[id].second_approved_by_id = 3

C27_WitnessBackFilled ==
    \E id \in EventIds :
        /\ last = Call("approve", 3, id, "ok")
        /\ events[id].first_approved_by_id = 3
        /\ events[id].second_approved_by_id = 3

(***************************************************************************)
(* C28.  In every reachable state, a leave request that was created        *)
(* pending and is still pending has second_approved_by_id, approved_by_id  *)
(* and approved_at unset (at most the first slot is recorded), and a       *)
(* request that approve moved to approved has both slots, approved_by_id   *)
(* and approved_at set and an empty rejection_reason.                      *)
(***************************************************************************)
C28_DecisionFieldsMatchStatus ==
    \A id \in EventIds :
        /\ (events[id].exists = "yes" /\ events[id].status = "pending")
           => /\ events[id].second_approved_by_id = None
              /\ events[id].approved_by_id = None
              /\ events[id].approved_at = FALSE
              /\ events[id].rejection_reason = "none"
        /\ (events[id].exists = "yes" /\ events[id].status = "approved")
           => /\ events[id].first_approved_by_id # None
              /\ events[id].second_approved_by_id # None
              /\ events[id].approved_by_id # None
              /\ events[id].approved_at = TRUE
              /\ events[id].rejection_reason = "none"

C28_Witness ==
    \E id \in EventIds :
        /\ last = Call("approve", 3, id, "ok")
        /\ TwoStepMode(id)
        /\ events[id].status = "approved"
        /\ events[id].first_approved_by_id = 2
        /\ events[id].second_approved_by_id = 3
        /\ events[id].approved_by_id = 3
        /\ events[id].approved_at = TRUE

C28_WitnessPendingAfterFirst ==
    \E id \in EventIds :
        /\ last = Call("approve", 2, id, "ok")
        /\ events[id].status = "pending"
        /\ events[id].first_approved_by_id = 2
        /\ events[id].second_approved_by_id = None
        /\ events[id].approved_by_id = None

(***************************************************************************)
(* C26.  As claimed: every Leave record with status approved, which the    *)
(* balance counts in used, has approved_by_id set and became an approved   *)
(* Leave record through a successful approve call; no sequence of          *)
(* create_event and update_event calls by the owner alone produces one.    *)
(***************************************************************************)
IsApprovedLeave(e) == e.exists = "yes" /\ e.type = "Leave" /\ e.status = "approved"

C26_ApprovedLeaveCameFromApprove ==
    [][\A id \in EventIds :
         IsApprovedLeave(events'[id])
         => /\ events'[id].approved_by_id # None
            /\ ~IsApprovedLeave(events[id])
               => (ApproveCalled(id) /\ last'.result = "ok")]_vars

C26_WitnessRetypedMeeting ==
    \E id \in EventIds :
        /\ last = Call("update_event", 1, id, "ok")
        /\ IsApprovedLeave(events[id])
        /\ events[id].approved_by_id = None
        /\ events[id].first_approved_by_id = None
        /\ Balance(events, <<PlainProfile, DateOf(0)>>).used = 100
        /\ Balance([events EXCEPT ![id] = NoEvent], <<PlainProfile, DateOf(0)>>).used = 0

(***************************************************************************)
(* C29.  As claimed: for every event stored pending whose type is          *)
(* leave-like under the classification of create_event (case and           *)
(* surrounding spaces ignored), an approve or reject call by a user who    *)
(* passes the reviewer role gate never answers NotFound.                   *)
(***************************************************************************)
C29_PendingLeaveLikeIsFound ==
    [][\A id \in EventIds :
         (/\ ApproveCalled(id) \/ RejectCalled(id)
          /\ events[id].exists = "yes"
          /\ events[id].status = "pending"
          /\ _is_leave_like_event(events[id])
          /\ require_leave_approver(users, last'.actor))
         => last'.result # "NotFound"]_vars

C29_WitnessStuckRequest ==
    \E id \in EventIds :
        /\ last = Call("approve", 3, id, "NotFound")
        /\ events[id].exists = "yes"
        /\ events[id].type = " leave "
        /\ events[id].status = "pending"
        /\ events[id].requested_by_id = 1
        /\ _compute_leave_review_permissions(users, 3, events[id], OwnerOf(id)) # <<FALSE, FALSE>>

(***************************************************************************)
(* C30.  As claimed: no approval is recorded by the request's own owner.   *)
(* In every mode an approve call whose acting user is the owner of the     *)
(* request records no approval slot and does not move the request to       *)
(* approved, and the admin profile update never stores a user as their own *)
(* first or second approver.                                               *)
(***************************************************************************)
C30_NoSelfApproval ==
    [][/\ \A id \in EventIds :
            (/\ ApproveCalled(id)
             /\ events[id].exists = "yes"
             /\ last'.actor = events[id].user_id)
            => /\ events'[id].first_approved_by_id = events[id].first_approved_by_id
               /\ events'[id].second_approved_by_id = events[id].second_approved_by_id
               /\ events'[id].status = events[id].status
       /\ \A user_id \in UserIds :
            /\ users'[user_id].first_approver_id # user_id
            /\ users'[user_id].second_approver_id # user_id]_vars

C30_WitnessSelfApproved ==
    \E id \in EventIds :
        /\ last = Call("approve", 3, id, "ok")
        /\ events[id].user_id = 3
        /\ events[id].requested_by_id = 3
        /\ events[id].status = "approved"
        /\ events[id].approved_by_id = 3
        /\ events[id].first_approved_by_id = 3

C30_WitnessOwnFirstApprover ==
    /\ last = Call("admin_update_user_profile", 3, 2, "ok")
    /\ users[2].first_approver_id = 2
    /\ users[3].second_approver_id = 3

C30_WitnessSelfApprovedTwoStep ==
    \E id \in EventIds :
        /\ last = Call("approve", 3, id, "ok")
        /\ events[id].user_id = 3
        /\ TwoStepMode(id)
        /\ events[id].status = "approved"
        /\ events[id].second_approved_by_id = 3

====
